---- MODULE Spec2Model ----
(***************************************************************************)
(* A model of the two portfolio pipelines of this repository:              *)
(*   src/build_daily_cockpit.py  (the "cockpit" variant, 5-session window) *)
(*   src/build_portfolio_mvp.py  (the "mvp" variant, 2-session window)     *)
(*                                                                         *)
(* Numbers.  A Python/pandas scalar is a record [k, n, d]:                 *)
(*   k = "none"  Python None                                               *)
(*   k = "nan"   float NaN (also pandas' missing-value marker)             *)
(*   k = "inf"   float infinity, n = 1 or -1                               *)
(*   k = "num"   the finite number n/d, d > 0, in lowest terms             *)
(* Finite floats are modelled by exact rationals (no rounding error).      *)
(* Text is a sequence of one-character strings.                            *)
(*                                                                         *)
(* Left out: the cells of the "Stock Name" and "Sell price" columns and the *)
(* notes file (text carried through, or parsed and never read), the        *)
(* wording of the digest and of the page, and time.sleep between fetches.  *)
(* Whether a column is there is part of the state; the cells of a column   *)
(* that is not there are never read.  A sheet holds at least one row.  The *)
(* quote source answers the same way each time it is asked about a symbol  *)
(* within one run.                                                         *)
(***************************************************************************)
EXTENDS Integers, Sequences, FiniteSets, TLC

VARIABLES
    variant,          \* which script runs: "cockpit" or "mvp"
    workbook,         \* SOURCE: whether it can be read, and its columns
    sheet,            \* the rows read from SOURCE (raw cells), immutable
    source,           \* the quote source: normalized symbol -> fetch outcome
    symbols,          \* the list handed to fetch_quotes
    si,               \* fetch_quotes: index of the next symbol of the loop
    quotes,           \* fetch_quotes: the mapping built so far
    calls,            \* the symbols fetch_quote was called with, in order
    holdings,         \* build: the derived, filtered and sorted rows
    totals,           \* build: total_cost, total_value, day_move, pct_gain
    ri,               \* build: index of the next row of the record loop
    records,          \* build: records / interactive_records
    attention,        \* build: attention (cockpit)
    ranked,           \* build: attention_sorted, top_losers, top_winners
    written,          \* the output files written so far, in order
    out,              \* the JSON handed to the page (report consumer)
    call,             \* parse_money on its own: argument and result
    pc                \* position of the run

vars == <<variant, workbook, sheet, source, symbols, si, quotes, calls, holdings, totals,
          ri, records, attention, ranked, written, out, call, pc>>

(***************************************************************************)
(* Scalars                                                                 *)
(***************************************************************************)
None == [k |-> "none", n |-> 0, d |-> 1]
NaN  == [k |-> "nan",  n |-> 0, d |-> 1]
PInf == [k |-> "inf",  n |-> 1, d |-> 1]
NInf == [k |-> "inf",  n |-> -1, d |-> 1]

Abs(i) == IF i < 0 THEN -i ELSE i

RECURSIVE GCD(_, _)
GCD(a, b) == IF b = 0 THEN a ELSE GCD(b, a % b)

\* the finite number n/d (d # 0), normalized
Q(n, d) ==
    LET g == GCD(Abs(n), Abs(d))
        s == IF d < 0 THEN -1 ELSE 1
    IN  [k |-> "num", n |-> (s * n) \div g, d |-> (s * d) \div g]

Int2Q(i) == [k |-> "num", n |-> i, d |-> 1]

IsNone(x) == x.k = "none"
IsNaN(x)  == x.k = "nan"
IsInf(x)  == x.k = "inf"
IsNum(x)  == x.k = "num"
IsZero(x) == x.k = "num" /\ x.n = 0

\* sign of a number or an infinity: -1, 0, 1
Sgn(x) == IF x.n > 0 THEN 1 ELSE IF x.n < 0 THEN -1 ELSE 0

\* pandas.isna(value): None and NaN are missing
IsNa(x) == IsNone(x) \/ IsNaN(x)

\* bool(value): None and 0 are falsy; NaN, infinities and non-zero are truthy
Truthy(x) == ~IsNone(x) /\ ~IsZero(x)

\* Python's  a or b
PyOr(a, b) == IF Truthy(a) THEN a ELSE b

(***************************************************************************)
(* IEEE-754 arithmetic as numpy performs it on float64 (a division by zero *)
(* yields an infinity or NaN, not an exception).  Operands are not None.   *)
(***************************************************************************)
FloatNeg(x) ==
    CASE IsNum(x) -> Q(-x.n, x.d)
      [] IsInf(x) -> [x EXCEPT !.n = -x.n]
      [] OTHER    -> NaN

FloatAdd(x, y) ==
    CASE IsNaN(x) \/ IsNaN(y) -> NaN
      [] IsInf(x) /\ IsInf(y) -> IF x.n = y.n THEN x ELSE NaN
      [] IsInf(x)             -> x
      [] IsInf(y)             -> y
      [] OTHER                -> Q(x.n * y.d + y.n * x.d, x.d * y.d)

FloatSub(x, y) == FloatAdd(x, FloatNeg(y))

FloatMul(x, y) ==
    CASE IsNaN(x) \/ IsNaN(y) -> NaN
      [] IsInf(x) \/ IsInf(y) ->
            IF Sgn(x) * Sgn(y) = 0 THEN NaN
            ELSE [k |-> "inf", n |-> Sgn(x) * Sgn(y), d |-> 1]
      [] OTHER                -> Q(x.n * y.n, x.d * y.d)

FloatDiv(x, y) ==
    CASE IsNaN(x) \/ IsNaN(y) -> NaN
      [] IsInf(x) /\ IsInf(y) -> NaN
      [] IsInf(x)             ->
            [k |-> "inf", n |-> x.n * (IF Sgn(y) < 0 THEN -1 ELSE 1), d |-> 1]
      [] IsInf(y)             -> Int2Q(0)
      [] IsZero(y)            ->
            IF Sgn(x) = 0 THEN NaN ELSE [k |-> "inf", n |-> Sgn(x), d |-> 1]
      [] OTHER                -> Q(x.n * y.d, x.d * y.n)

\* x <= y on floats: every comparison with NaN is False
FloatLe(x, y) ==
    CASE IsNaN(x) \/ IsNaN(y) -> FALSE
      [] IsInf(x)             -> x.n = -1 \/ (IsInf(y) /\ y.n = 1)
      [] IsInf(y)             -> y.n = 1
      [] OTHER                -> x.n * y.d <= y.n * x.d

FloatLt(x, y) == FloatLe(x, y) /\ x # y

\* pandas Series arithmetic: a None cell of an object column is masked, and
\* the result there is NaN
Na(x) == IF IsNone(x) THEN NaN ELSE x
SeriesSub(x, y) == FloatSub(Na(x), Na(y))
SeriesMul(x, y) == FloatMul(Na(x), Na(y))
SeriesDiv(x, y) == FloatDiv(Na(x), Na(y))

\* a Series built from Python values: None becomes NaN unless every value is
\* None (the column then keeps dtype object and its None values)
AllNone(col) == \A i \in 1..Len(col) : IsNone(col[i])
AsSeries(col) == IF AllNone(col) THEN col ELSE [i \in 1..Len(col) |-> Na(col[i])]

(***************************************************************************)
(* Text                                                                    *)
(***************************************************************************)
Str(s) == [k |-> "str", s |-> s]
IsStr(x) == x.k = "str"

Lower == <<"a", "b", "f", "i", "n", "t", "y", "x">>
UpperOf == <<"A", "B", "F", "I", "N", "T", "Y", "X">>

UpperChar(c) ==
    IF \E i \in 1..Len(Lower) : Lower[i] = c
    THEN UpperOf[CHOOSE i \in 1..Len(Lower) : Lower[i] = c]
    ELSE c

\* str.upper()
Upper(s) == [i \in 1..Len(s) |-> UpperChar(s[i])]

\* str.strip()
RECURSIVE Strip(_)
Strip(s) ==
    IF s = <<>> THEN s
    ELSE IF Head(s) = " " THEN Strip(Tail(s))
    ELSE IF s[Len(s)] = " " THEN Strip(SubSeq(s, 1, Len(s) - 1))
    ELSE s

\* str.replace(c, "")
Remove(s, c) == SelectSeq(s, LAMBDA x : x # c)

Digits == <<"0", "1", "2", "3", "4", "5", "6", "7", "8", "9">>
IsDigit(c) == \E i \in 1..10 : Digits[i] = c
DigitVal(c) == (CHOOSE i \in 1..10 : Digits[i] = c) - 1

RECURSIVE DigitsVal(_)
DigitsVal(s) ==
    IF s = <<>> THEN 0 ELSE 10 * DigitsVal(SubSeq(s, 1, Len(s) - 1)) + DigitVal(s[Len(s)])

RECURSIVE Pow10(_)
Pow10(e) == IF e = 0 THEN 1 ELSE 10 * Pow10(e - 1)

\* float(text) for text without exponent or underscore: a signed decimal,
\* "nan", "inf" or "infinity" in any case; None stands for ValueError
ParseUnsigned(s) ==
    LET dots == SelectSeq(s, LAMBDA c : c = ".")
        digs == SelectSeq(s, LAMBDA c : c # ".")
        word == Upper(s)
    IN  IF word = <<"N", "A", "N">> THEN NaN
        ELSE IF word = <<"I", "N", "F">>
                \/ word = <<"I", "N", "F", "I", "N", "I", "T", "Y">> THEN PInf
        ELSE IF Len(dots) <= 1 /\ digs # <<>> /\ \A i \in 1..Len(digs) : IsDigit(digs[i])
        THEN LET frac == IF dots = <<>> THEN 0
                         ELSE Len(s) - (CHOOSE i \in 1..Len(s) : s[i] = ".")
             IN  Q(DigitsVal(digs), Pow10(frac))
        ELSE None

ParseFloat(s) ==
    IF s = <<>> THEN None
    ELSE IF Head(s) = "-" THEN
        (IF IsNone(ParseUnsigned(Tail(s))) THEN None ELSE FloatNeg(ParseUnsigned(Tail(s))))
    ELSE IF Head(s) = "+" THEN ParseUnsigned(Tail(s))
    ELSE ParseUnsigned(s)

\* parse_money(value)
parse_money(value) ==
    IF IsStr(value) THEN
        LET clean == Strip(Remove(Remove(value.s, "$"), ","))
        IN  IF clean = <<>> THEN None ELSE ParseFloat(clean)
    ELSE IF IsNone(value) THEN None
    ELSE value

\* pandas.to_numeric(cell, errors="coerce"): a number stays, text that is a
\* number is parsed, everything else is NaN
to_numeric(cell) ==
    IF IsStr(cell) THEN Na(ParseFloat(cell.s)) ELSE Na(cell)

\* df["Symbol"].astype(str).str.strip().str.upper(): a missing cell is "nan"
Symbol_clean(cell) ==
    IF IsStr(cell) THEN Upper(Strip(cell.s)) ELSE <<"N", "A", "N">>

(***************************************************************************)
(* Program constants                                                       *)
(***************************************************************************)
DayDropPct == -3
WeekDropPct == -10
UnderBuyPct == -15
UnderDecPct == -20
WeekSessions == 5
AttentionSentinel == -999
TopN == 5
AttentionCap == 10

(***************************************************************************)
(* fetch_quote.  The quote source answers a query with an exception or     *)
(* with a window of daily closes, oldest first; a close may be missing     *)
(* (NaN).  [exc |-> TRUE] is any exception raised inside the try block.    *)
(***************************************************************************)
NoQuote == None

\* data.dropna(subset=["Close"])
DropNa(closes) == SelectSeq(closes, LAMBDA c : ~IsNa(c))

\* mutant of fetch_quote: the sessions without a close are not dropped
fetch_quote_keeps_missing(outcome, v) ==
    IF outcome.exc THEN NoQuote
    ELSE
    LET data == outcome.closes
        len  == Len(data)
    IN  IF len = 0 THEN NoQuote
        ELSE
        LET price      == data[len]
            prev_close == IF len > 1 THEN data[len - 1] ELSE None
            day_change == IF Truthy(prev_close) THEN FloatSub(price, prev_close) ELSE None
            day_pct    == IF Truthy(prev_close)
                          THEN FloatMul(FloatDiv(day_change, prev_close), Int2Q(100))
                          ELSE None
            week_ago   == IF len >= WeekSessions THEN data[1] ELSE None
            week_pct   == IF v = "cockpit" /\ Truthy(week_ago)
                          THEN FloatMul(FloatDiv(FloatSub(price, week_ago), week_ago), Int2Q(100))
                          ELSE None
        IN  [k |-> "quote", price |-> price, prev_close |-> prev_close,
             day_change |-> day_change, day_pct |-> day_pct, week_pct |-> week_pct]

fetch_quote(outcome, v) ==
    IF outcome.exc THEN NoQuote
    ELSE
    LET data == DropNa(outcome.closes)
        len  == Len(data)
    IN  IF len = 0 THEN NoQuote
        ELSE
        LET price      == data[len]
            prev_close == IF len > 1 THEN data[len - 1] ELSE None
            day_change == IF Truthy(prev_close) THEN FloatSub(price, prev_close) ELSE None
            day_pct    == IF Truthy(prev_close)
                          THEN FloatMul(FloatDiv(day_change, prev_close), Int2Q(100))
                          ELSE None
            week_ago   == IF len >= WeekSessions THEN data[1] ELSE None
            week_pct   == IF v = "cockpit" /\ Truthy(week_ago)
                          THEN FloatMul(FloatDiv(FloatSub(price, week_ago), week_ago), Int2Q(100))
                          ELSE None
        IN  [k |-> "quote", price |-> price, prev_close |-> prev_close,
             day_change |-> day_change, day_pct |-> day_pct, week_pct |-> week_pct]

HasQuote(q) == q.k = "quote"

(***************************************************************************)
(* classify                                                                *)
(***************************************************************************)
\* a trigger label is <<leading glyph, text>>: "v" is the down-triangle of
\* the decline labels, "T" the target glyph
DayDrop   == <<"v", "Day drop >3%">>
WeekDrop  == <<"v", "Week drop >10%">>
UnderBuy  == <<"v", "15% under buy">>
UnderDec  == <<"v", "20% under Dec ref">>
TargetHit == <<"T", "Target reached">>

\* t.startswith(down-triangle)
IsDecline(t) == t[1] = "v"

TargetReached(target, current) ==
    Truthy(target) /\ Truthy(current) /\ FloatLe(target, current)

\* mutant of Triggers: the bounds are exclusive
TriggersExclusive(row) ==
    LET day_pct  == PyOr(row.DayPct, Int2Q(0))
        pct_buy  == PyOr(row.Pct_vs_buy, Int2Q(0))
        pct_dec  == PyOr(row.Pct_vs_dec, Int2Q(0))
        week_pct == PyOr(row.WeekPct, Int2Q(0))
    IN  (IF FloatLt(day_pct, Int2Q(DayDropPct)) THEN <<DayDrop>> ELSE <<>>)
        \o (IF FloatLt(week_pct, Int2Q(WeekDropPct)) THEN <<WeekDrop>> ELSE <<>>)
        \o (IF FloatLt(pct_buy, Int2Q(UnderBuyPct)) THEN <<UnderBuy>> ELSE <<>>)
        \o (IF FloatLt(pct_dec, Int2Q(UnderDecPct)) THEN <<UnderDec>> ELSE <<>>)
        \o (IF TargetReached(row.Target, row.Current) THEN <<TargetHit>> ELSE <<>>)

Triggers(row) ==
    LET day_pct  == PyOr(row.DayPct, Int2Q(0))
        pct_buy  == PyOr(row.Pct_vs_buy, Int2Q(0))
        pct_dec  == PyOr(row.Pct_vs_dec, Int2Q(0))
        week_pct == PyOr(row.WeekPct, Int2Q(0))
    IN  (IF FloatLe(day_pct, Int2Q(DayDropPct)) THEN <<DayDrop>> ELSE <<>>)
        \o (IF FloatLe(week_pct, Int2Q(WeekDropPct)) THEN <<WeekDrop>> ELSE <<>>)
        \o (IF FloatLe(pct_buy, Int2Q(UnderBuyPct)) THEN <<UnderBuy>> ELSE <<>>)
        \o (IF FloatLe(pct_dec, Int2Q(UnderDecPct)) THEN <<UnderDec>> ELSE <<>>)
        \o (IF TargetReached(row.Target, row.Current) THEN <<TargetHit>> ELSE <<>>)

\* mutant of Status: a reached target wins over a decline
StatusTargetFirst(triggers) ==
    IF triggers = <<>> THEN "stable"
    ELSE IF \E i \in 1..Len(triggers) : ~IsDecline(triggers[i]) THEN "action"
    ELSE "attention"

Status(triggers) ==
    IF triggers = <<>> THEN "stable"
    ELSE IF \E i \in 1..Len(triggers) : IsDecline(triggers[i]) THEN "attention"
    ELSE "action"

classify(row) ==
    LET triggers == Triggers(row)
    IN  [status |-> Status(triggers), triggers |-> triggers]

(***************************************************************************)
(* clean_for_json on a scalar field: NaN and the infinities become None    *)
(***************************************************************************)
clean_for_json(value) ==
    IF IsNaN(value) \/ IsInf(value) THEN None ELSE value

(***************************************************************************)
(* Helpers on sequences                                                    *)
(***************************************************************************)
Range(f) == {f[i] : i \in DOMAIN f}

RECURSIVE Unique(_)
\* Series.unique(): the distinct values in order of first appearance
Unique(s) ==
    IF s = <<>> THEN <<>>
    ELSE LET init == Unique(SubSeq(s, 1, Len(s) - 1))
             x == s[Len(s)]
         IN  IF x \in Range(init) THEN init ELSE Append(init, x)

Reverse(s) == [i \in 1..Len(s) |-> s[Len(s) + 1 - i]]

Take(s, n) == SubSeq(s, 1, IF Len(s) < n THEN Len(s) ELSE n)

Perms(n) ==
    {p \in [1..n -> 1..n] : \A i, j \in 1..n : i # j => p[i] # p[j]}

(***************************************************************************)
(* fetch_quotes: one iteration of the loop, and the return                 *)
(***************************************************************************)
NAN == <<"N", "A", "N">>

\* mutant of SymbolList: the symbols are not reduced to the distinct ones
SymbolListRepeated(sh) ==
    SelectSeq([i \in 1..Len(sh) |-> Symbol_clean(sh[i].Symbol)],
              LAMBDA s : s # <<>> /\ s # NAN)

\* build, lines 139-141: read the sheet, normalize the symbols, keep the
\* distinct ones that are neither empty nor "NAN"
SymbolList(sh) ==
    SelectSeq(Unique([i \in 1..Len(sh) |-> Symbol_clean(sh[i].Symbol)]),
              LAMBDA s : s # <<>> /\ s # NAN)

\* the columns of SOURCE that the scripts name
AllColumns ==
    {"Stock Name", "Symbol", "Units", "Buy price", "Sell price", "Current Price",
     "Price As of Dec 19 2025", "Target (20%)"}

\* df[c] for every c of cols finds its column (no KeyError)
Has(cols) == cols \subseteq workbook.columns

\* pd.read_excel(SOURCE) raises when the file cannot be read, df["Symbol"]
\* when the column is not there
Load ==
    /\ pc = "start"
    /\ IF workbook.readable /\ Has({"Symbol"})
       THEN /\ symbols' = SymbolList(sheet)
            /\ si' = 1
            /\ pc' = "fetch"
       ELSE /\ pc' = "aborted"
            /\ UNCHANGED <<symbols, si>>
    /\ UNCHANGED <<variant, workbook, call, sheet, source, quotes, calls, holdings, totals,
                   ri, records, attention, ranked, written, out>>

\* mutant of FetchStep: a failed fetch ends the loop
FetchStepStopsOnFailure ==
    /\ pc = "fetch"
    /\ si <= Len(symbols)
    /\ LET clean == Upper(Strip(symbols[si]))
       IN  IF clean = <<>> \/ clean \in DOMAIN quotes
           THEN UNCHANGED <<quotes, calls>> /\ si' = si + 1
           ELSE LET quote == fetch_quote(source[clean], variant)
                IN  /\ calls' = Append(calls, clean)
                    /\ quotes' = IF HasQuote(quote)
                                 THEN [s \in DOMAIN quotes \cup {clean} |->
                                          IF s = clean THEN quote ELSE quotes[s]]
                                 ELSE quotes
                    /\ si' = IF HasQuote(quote) THEN si + 1 ELSE Len(symbols) + 1
    /\ UNCHANGED <<variant, workbook, call, sheet, source, symbols, holdings, totals, ri, records,
                   attention, ranked, written, out, pc>>

FetchStep ==
    /\ pc = "fetch"
    /\ si <= Len(symbols)
    /\ LET clean == Upper(Strip(symbols[si]))
       IN  IF clean = <<>> \/ clean \in DOMAIN quotes
           THEN UNCHANGED <<quotes, calls>>
           ELSE LET quote == fetch_quote(source[clean], variant)
                IN  /\ calls' = Append(calls, clean)
                    /\ quotes' = IF HasQuote(quote)
                                 THEN [s \in DOMAIN quotes \cup {clean} |->
                                          IF s = clean THEN quote ELSE quotes[s]]
                                 ELSE quotes
    /\ si' = si + 1
    /\ UNCHANGED <<variant, workbook, call, sheet, source, symbols, holdings, totals, ri, records,
                   attention, ranked, written, out, pc>>

FetchReturn ==
    /\ pc = "fetch"
    /\ si > Len(symbols)
    /\ pc' = "derive"
    /\ UNCHANGED <<variant, workbook, call, sheet, source, symbols, si, quotes, calls, holdings,
                   totals, ri, records, attention, ranked, written, out>>

(***************************************************************************)
(* build: the derived columns, the positive-units filter and the sort      *)
(***************************************************************************)
\* mutant of current_from_quote: the quote never marks a row below the
\* sheet's price
current_not_below_sheet(sym, fallback, qs) ==
    IF sym \in DOMAIN qs /\ (IsNa(fallback) \/ FloatLe(fallback, qs[sym].price))
    THEN qs[sym].price
    ELSE fallback

\* mutant of current_from_quote: the sheet's price wins when it is there
current_prefers_sheet(sym, fallback, qs) ==
    IF sym \in DOMAIN qs /\ IsNa(fallback) THEN qs[sym].price ELSE fallback

current_from_quote(sym, fallback, qs) ==
    IF sym \in DOMAIN qs THEN qs[sym].price ELSE fallback

metric_from_quote(sym, field, qs) ==
    IF sym \in DOMAIN qs THEN qs[sym][field] ELSE None

\* ((a - b) / b) * 100 on Series cells
PctVs(a, b) == SeriesMul(SeriesDiv(SeriesSub(a, b), b), Int2Q(100))

\* the data frame after lines 140-174 (cockpit) / 83-112 (mvp), one record
\* per sheet row
Frame(sh, qs, v) ==
    LET idx     == 1..Len(sh)
        sym     == [i \in idx |-> Symbol_clean(sh[i].Symbol)]
        Units   == [i \in idx |-> to_numeric(sh[i].Units)]
        Buy     == AsSeries([i \in idx |-> parse_money(sh[i].BuyPrice)])
        CurrentExcel == AsSeries([i \in idx |-> parse_money(sh[i].CurrentPrice)])
        DecRef  == [i \in idx |-> to_numeric(sh[i].DecRef)]
        Target  == [i \in idx |-> to_numeric(sh[i].Target)]
        Current == AsSeries([i \in idx |->
                      current_from_quote(sym[i],
                          IF v = "cockpit" THEN CurrentExcel[i]
                          ELSE parse_money(sh[i].CurrentPrice), qs)])
        DayChange == AsSeries([i \in idx |-> metric_from_quote(sym[i], "day_change", qs)])
        DayPct  == AsSeries([i \in idx |-> metric_from_quote(sym[i], "day_pct", qs)])
        WeekPct == AsSeries([i \in idx |-> metric_from_quote(sym[i], "week_pct", qs)])
    IN  [i \in idx |->
            [row |-> i,
             Symbol_clean |-> sym[i],
             Units |-> Units[i],
             Buy |-> Buy[i],
             Current |-> Current[i],
             DecRef |-> DecRef[i],
             Target |-> IF v = "cockpit" THEN Target[i] ELSE None,
             DayChange |-> DayChange[i],
             DayPct |-> DayPct[i],
             WeekPct |-> IF v = "cockpit" THEN WeekPct[i] ELSE None,
             Pct_vs_buy |-> PctVs(Current[i], Buy[i]),
             Pct_vs_dec |-> PctVs(Current[i], DecRef[i]),
             CostBasis |-> SeriesMul(Units[i], Buy[i]),
             CurrentValue |-> SeriesMul(Units[i], Current[i]),
             DayDollar |-> IF v = "cockpit" THEN SeriesMul(Units[i], DayChange[i])
                           ELSE None]]

\* mutant of PositiveUnits: a row of zero units is kept
PositiveUnitsOrZero(u) == ~IsNa(u) /\ FloatLe(Int2Q(0), u)

\* df[df["Units"].fillna(0) > 0]
PositiveUnits(u) == ~IsNa(u) /\ FloatLt(Int2Q(0), u)

Held(df) == SelectSeq(df, LAMBDA r : PositiveUnits(r.Units))

\* sort_values("Pct_vs_buy", ascending=True): NaN last; the default sort is
\* not stable, so rows with equal keys may come out in any order
InOrder(a, b) == IsNaN(b) \/ (~IsNaN(a) /\ FloatLe(a, b))

SortedBy_Pct_vs_buy(h) ==
    {[i \in 1..Len(h) |-> h[p[i]]] : p \in
        {q \in Perms(Len(h)) :
            \A i \in 1..Len(h) - 1 : InOrder(h[q[i]].Pct_vs_buy, h[q[i + 1]].Pct_vs_buy)}}

\* the columns lines 144-149 (cockpit) / 87-105 (mvp) read: the mvp script
\* reads row["Current Price"] inside current_from_quote, for a row without
\* quote only
DeriveColumns(v, sh, qs) ==
    IF v = "cockpit"
    THEN {"Units", "Buy price", "Sell price", "Current Price",
          "Price As of Dec 19 2025", "Target (20%)"}
    ELSE {"Buy price", "Units", "Price As of Dec 19 2025"}
         \cup (IF \E i \in 1..Len(sh) : Symbol_clean(sh[i].Symbol) \notin DOMAIN qs
               THEN {"Current Price"} ELSE {})

Derive ==
    /\ pc = "derive"
    /\ IF Has(DeriveColumns(variant, sheet, quotes))
       THEN /\ holdings' \in SortedBy_Pct_vs_buy(Held(Frame(sheet, quotes, variant)))
            /\ pc' = "totals"
       ELSE /\ pc' = "aborted"
            /\ UNCHANGED holdings
    /\ UNCHANGED <<variant, workbook, call, sheet, source, symbols, si, quotes, calls, totals, ri,
                   records, attention, ranked, written, out>>

(***************************************************************************)
(* build: the portfolio totals                                             *)
(***************************************************************************)
RECURSIVE FloatSum(_)
FloatSum(s) == IF s = <<>> THEN Int2Q(0) ELSE FloatAdd(Head(s), FloatSum(Tail(s)))

\* Series.sum(min_count=1): missing values are skipped; NaN when fewer than
\* one value is left
SumMinCount1(col) ==
    LET valid == SelectSeq(col, LAMBDA x : ~IsNa(x))
    IN  IF valid = <<>> THEN NaN ELSE FloatSum(valid)

Column(h, field) == [i \in 1..Len(h) |-> h[i][field]]

NetPct(total_value, total_cost) ==
    IF Truthy(total_cost)
    THEN FloatMul(FloatDiv(FloatSub(total_value, total_cost), total_cost), Int2Q(100))
    ELSE Int2Q(0)

TotalOf(h, field, v) ==
    IF v = "cockpit"
    THEN PyOr(SumMinCount1(Column(h, field)), Int2Q(0))
    ELSE SumMinCount1(Column(h, field))

\* mutant of DayMove: the sum is used as it comes
DayMoveUnguarded(h) == SumMinCount1(Column(h, "DayDollar"))

DayMove(h) ==
    LET day_move == SumMinCount1(Column(h, "DayDollar"))
    IN  IF IsNa(day_move) THEN Int2Q(0) ELSE day_move

Totals ==
    /\ pc = "totals"
    /\ LET total_cost  == TotalOf(holdings, "CostBasis", variant)
           total_value == TotalOf(holdings, "CurrentValue", variant)
       IN  totals' = [total_cost |-> total_cost,
                      total_value |-> total_value,
                      day_move |-> IF variant = "cockpit" THEN DayMove(holdings) ELSE None,
                      pct_gain |-> NetPct(total_value, total_cost)]
    /\ ri' = 1
    /\ pc' = IF variant = "mvp" /\ ~Has({"Stock Name", "Symbol"}) THEN "aborted" ELSE "records"
    /\ UNCHANGED <<variant, workbook, call, sheet, source, symbols, si, quotes, calls, holdings,
                   records, attention, ranked, written, out>>

(***************************************************************************)
(* build: the record loop                                                  *)
(***************************************************************************)
\* round(x, 4) of a finite number, ties to even
Round4(x) ==
    LET scaled == x.n * 10000
        fl == scaled \div x.d
        rem2 == 2 * (scaled - fl * x.d)
        up == rem2 > x.d \/ (rem2 = x.d /\ fl % 2 = 1)
    IN  Q(IF up THEN fl + 1 ELSE fl, 10000)

CockpitRecord(row) ==
    LET c == classify(row)
    IN  [symbol |-> row.Symbol_clean,
         row |-> row.row,
         units |-> PyOr(row.Units, Int2Q(0)),
         buy |-> row.Buy,
         current |-> row.Current,
         costBasis |-> row.CostBasis,
         currentValue |-> row.CurrentValue,
         pctVsBuy |-> row.Pct_vs_buy,
         pctVsDec |-> row.Pct_vs_dec,
         dayChange |-> row.DayChange,
         dayPct |-> row.DayPct,
         weekPct |-> row.WeekPct,
         target |-> row.Target,
         status |-> c.status,
         triggers |-> c.triggers,
         dayDollar |-> row.DayDollar]

MvpRecord(row) ==
    [symbol |-> row.Symbol_clean,
     row |-> row.row,
     units |-> IF IsNaN(row.Units) THEN Int2Q(0)
               ELSE IF IsNum(row.Units) THEN Round4(row.Units) ELSE row.Units,
     buy |-> row.Buy,
     current |-> row.Current,
     costBasis |-> row.CostBasis,
     currentValue |-> row.CurrentValue,
     pctVsBuy |-> row.Pct_vs_buy,
     pctVsDec |-> row.Pct_vs_dec,
     dayChange |-> row.DayChange,
     dayPct |-> row.DayPct]

RecordStep ==
    /\ pc = "records"
    /\ ri <= Len(holdings)
    /\ IF Has({"Stock Name"})
       THEN /\ LET record == IF variant = "cockpit" THEN CockpitRecord(holdings[ri])
                             ELSE MvpRecord(holdings[ri])
               IN  /\ records' = Append(records, record)
                   /\ attention' = IF variant = "cockpit" /\ record.triggers # <<>>
                                   THEN Append(attention, record) ELSE attention
            /\ ri' = ri + 1
            /\ UNCHANGED pc
       ELSE /\ pc' = "aborted"
            /\ UNCHANGED <<records, attention, ri>>
    /\ UNCHANGED <<variant, workbook, call, sheet, source, symbols, si, quotes, calls,
                   holdings, totals, ranked, written, out>>

RecordsDone ==
    /\ pc = "records"
    /\ ri > Len(holdings)
    /\ pc' = IF variant = "cockpit" THEN "rank" ELSE "digest"
    /\ UNCHANGED <<variant, workbook, call, sheet, source, symbols, si, quotes, calls, holdings,
                   totals, ri, records, attention, ranked, written, out>>

(***************************************************************************)
(* sorted(): CPython's list sort for lists shorter than 64 elements: the   *)
(* leading run is found (and reversed when strictly descending), then the  *)
(* rest is inserted by binary insertion.  Only  key < key  is used, so a   *)
(* NaN key compares False against every key.                               *)
(***************************************************************************)
RECURSIVE RunLength(_, _, _)
\* the length of the run starting at keys[1], having looked at n keys
RunLength(keys, n, descending) ==
    IF n >= Len(keys) THEN n
    ELSE IF FloatLt(keys[n + 1], keys[n]) = descending
         THEN RunLength(keys, n + 1, descending)
         ELSE n

RECURSIVE BinarySearch(_, _, _, _)
\* the insertion point of pivot in keys[l .. r-1]
BinarySearch(keys, pivot, l, r) ==
    IF l >= r THEN l
    ELSE LET p == l + ((r - l) \div 2)
         IN  IF FloatLt(pivot, keys[p])
             THEN BinarySearch(keys, pivot, l, p)
             ELSE BinarySearch(keys, pivot, p + 1, r)

InsertAt(s, i, x) == SubSeq(s, 1, i - 1) \o <<x>> \o SubSeq(s, i, Len(s))

RECURSIVE BinarySort(_, _, _)
\* order lists positions of keys; order[1 .. start-1] is sorted by key; insert
\* the rest one by one
BinarySort(order, keys, start) ==
    IF start > Len(order) THEN order
    ELSE LET prefix == SubSeq(order, 1, start - 1)
             at == BinarySearch([i \in 1..Len(prefix) |-> keys[prefix[i]]],
                                keys[order[start]], 1, start)
         IN  BinarySort(InsertAt(prefix, at, order[start])
                            \o SubSeq(order, start + 1, Len(order)),
                        keys, start + 1)

\* list.sort() on keys: the positions of keys in sorted order
ListSort(keys) ==
    LET all == [i \in 1..Len(keys) |-> i]
    IN  IF Len(keys) < 2 THEN all
        ELSE LET descending == FloatLt(keys[2], keys[1])
                 n == RunLength(keys, 2, descending)
                 run == IF descending THEN Reverse(SubSeq(all, 1, n)) ELSE SubSeq(all, 1, n)
             IN  BinarySort(run \o SubSeq(all, n + 1, Len(all)), keys, n + 1)

\* the items at the positions order lists
Pick(items, order) == [i \in 1..Len(order) |-> items[order[i]]]

\* position i of a reversed list of n items, seen from the front
Mirror(order, n) == [i \in 1..Len(order) |-> n + 1 - order[i]]

\* sorted(items, key=..., reverse=reverse), keys[i] being the key of items[i]:
\* with reverse the list is reversed, sorted, and reversed again
Sorted(items, keys, reverse) ==
    Pick(items, IF reverse
                THEN Reverse(Mirror(ListSort(Reverse(keys)), Len(keys)))
                ELSE ListSort(keys))

AttentionKey(r) == PyOr(r.dayPct, Int2Q(AttentionSentinel))
MoverKey(r) == PyOr(r.dayPct, Int2Q(0))

Rank ==
    /\ pc = "rank"
    /\ LET attention_keys == [i \in 1..Len(attention) |-> AttentionKey(attention[i])]
           mover_keys == [i \in 1..Len(records) |-> MoverKey(records[i])]
       IN  ranked' = [attention_sorted |-> Sorted(attention, attention_keys, FALSE),
                      top_losers |-> Take(Sorted(records, mover_keys, FALSE), TopN),
                      top_winners |-> Take(Sorted(records, mover_keys, TRUE), TopN)]
    /\ pc' = "digest"
    /\ UNCHANGED <<variant, workbook, call, sheet, source, symbols, si, quotes, calls, holdings,
                   totals, ri, records, attention, written, out>>

(***************************************************************************)
(* build: the text file, the JSON for the page, the page                   *)
(***************************************************************************)
WriteDigest ==
    /\ pc = "digest"
    /\ written' = Append(written, IF variant = "cockpit" THEN "DIGEST" ELSE "SUMMARY")
    /\ pc' = "serialize"
    /\ UNCHANGED <<variant, workbook, call, sheet, source, symbols, si, quotes, calls, holdings,
                   totals, ri, records, attention, ranked, out>>

\* the fields of a record that hold numbers
NumericFields(v) ==
    IF v = "cockpit"
    THEN {"units", "buy", "current", "costBasis", "currentValue", "pctVsBuy",
          "pctVsDec", "dayChange", "dayPct", "weekPct", "target", "dayDollar"}
    ELSE {"units", "buy", "current", "costBasis", "currentValue", "pctVsBuy",
          "pctVsDec", "dayChange", "dayPct"}

\* clean_for_json on a record: every number of it is cleaned
CleanRecord(r) ==
    [f \in DOMAIN r |-> IF f \in NumericFields("cockpit") THEN clean_for_json(r[f]) ELSE r[f]]

CleanList(rs) == [i \in 1..Len(rs) |-> CleanRecord(rs[i])]

\* cockpit: json.dumps(clean_for_json(...)); mvp: json.dumps(interactive_records)
Serialized(v, recs, rk) ==
    IF v = "cockpit"
    THEN [records |-> CleanList(recs),
          attention |-> CleanList(Take(rk.attention_sorted, AttentionCap)),
          winners |-> CleanList(rk.top_winners),
          losers |-> CleanList(rk.top_losers)]
    ELSE [records |-> recs, attention |-> <<>>, winners |-> <<>>, losers |-> <<>>]

Serialize ==
    /\ pc = "serialize"
    /\ out' = Serialized(variant, records, ranked)
    /\ pc' = "output"
    /\ UNCHANGED <<variant, workbook, call, sheet, source, symbols, si, quotes, calls, holdings,
                   totals, ri, records, attention, ranked, written>>

WriteOutput ==
    /\ pc = "output"
    /\ written' = Append(written, "OUTPUT")
    /\ pc' = "done"
    /\ UNCHANGED <<variant, workbook, call, sheet, source, symbols, si, quotes, calls, holdings,
                   totals, ri, records, attention, ranked, out>>

(***************************************************************************)
(* Inputs                                                                  *)
(***************************************************************************)
MaxRows == 2
MaxSyms == 3

Missing == NaN                        \* an empty spreadsheet cell
Num(i) == Int2Q(i)

\* the rows a sheet may hold: raw cells of the columns "Symbol", "Units",
\* "Buy price", "Current Price", "Price As of Dec 19 2025", "Target (20%)"
Row(sym, units, buy, cur, dec, target) ==
    [Symbol |-> sym, Units |-> units, BuyPrice |-> buy, CurrentPrice |-> cur,
     DecRef |-> dec, Target |-> target]

SheetRows ==
    { Row(Str(<<" ", "a">>), Num(10), Str(<<"$", "1", "0", "0">>), Num(95), Num(90), Num(130)),
      Row(Str(<<"B">>), Num(2), Num(0), Str(<<"$", "5", "0">>), Missing, Num(0)),
      Row(Str(<<"A">>), Num(0), Num(100), Num(95), Num(90), Num(100)),
      Row(Str(<<"B">>), Str(<<"n", "a">>), Str(<<>>), None, Num(0), Missing),
      Row(Missing, Num(3), Str(<<"$", "2", "0">>), Str(<<"3", "0">>), Num(25), Num(30)),
      Row(Str(<<"b", " ">>), Num(-1), Num(40), Num(30), Num(50), Num(20)),
      Row(Str(<<"A">>), Num(5), Missing, Str(<<"9", "5", ".", "5">>), Str(<<"x">>), Num(90)),
      Row(Str(<<" ">>), Missing, Num(10), Num(12), Num(10), Num(11)) }

Sheets == UNION {[1..n -> SheetRows] : n \in 1..MaxRows}

Window(closes) == [exc |-> FALSE, closes |-> closes]
Raises == [exc |-> TRUE, closes |-> <<>>]

\* what the quote source may answer: period="5d" gives at most 5 sessions,
\* period="2d" at most 2
Answers(v) ==
    { Raises,
      Window(<<>>),
      Window(<<Num(95)>>),
      Window(<<Num(100), Num(96)>>) }
    \cup (IF v = "cockpit"
          THEN {Window(<<Num(120), Num(110), Num(105), Num(100), Num(97)>>)}
          ELSE {})

FetchAnswers(v) ==
    Answers(v)
    \cup {Window(<<Num(0), Num(50)>>), Window(<<Num(80), NaN>>)}
    \cup (IF v = "cockpit"
          THEN {Window(<<Num(120), NaN, Num(105), Num(100), Num(97)>>),
                Window(<<Num(0), Num(110), Num(105), Num(100), Num(97)>>),
                Window(<<Num(100), NaN, Num(96)>>)}
          ELSE {})

FetchSymbols == {<<"a">>, <<" ", "A">>, <<"b", " ">>, <<" ">>}

SymbolLists == UNION {[1..n -> FetchSymbols] : n \in 0..MaxSyms}

Variants == {"cockpit", "mvp"}

\* a SOURCE that can be read and has every column
ValidWorkbook == [readable |-> TRUE, columns |-> AllColumns]

\* a SOURCE that cannot be read, or can and lacks at most one column
Workbooks ==
    {[readable |-> FALSE, columns |-> {}]}
    \cup {[readable |-> TRUE, columns |-> AllColumns \ m] :
              m \in {{}} \cup {{c} : c \in AllColumns}}

NoTotals == [total_cost |-> None, total_value |-> None, day_move |-> None, pct_gain |-> None]
NoRanked == [attention_sorted |-> <<>>, top_losers |-> <<>>, top_winners |-> <<>>]
NoOut == [records |-> <<>>, attention |-> <<>>, winners |-> <<>>, losers |-> <<>>]
NoCall == [arg |-> None, result |-> None, returned |-> FALSE]

(***************************************************************************)
(* The run of build                                                        *)
(***************************************************************************)
Init ==
    /\ variant \in Variants
    /\ workbook = ValidWorkbook
    /\ call = NoCall
    /\ sheet \in Sheets
    /\ source \in [Range(SymbolList(sheet)) -> Answers(variant)]
    /\ symbols = <<>>
    /\ si = 1
    /\ quotes = <<>>
    /\ calls = <<>>
    /\ holdings = <<>>
    /\ totals = NoTotals
    /\ ri = 1
    /\ records = <<>>
    /\ attention = <<>>
    /\ ranked = NoRanked
    /\ written = <<>>
    /\ out = NoOut
    /\ pc = "start"

Next ==
    \/ Load
    \/ FetchStep
    \/ FetchReturn
    \/ Derive
    \/ Totals
    \/ RecordStep
    \/ RecordsDone
    \/ Rank
    \/ WriteDigest
    \/ Serialize
    \/ WriteOutput

Spec == Init /\ [][Next]_vars

(***************************************************************************)
(* The run of build over a one-row sheet in a SOURCE that may be           *)
(* unreadable or lack a column                                             *)
(***************************************************************************)
InitStructure ==
    /\ variant \in Variants
    /\ workbook \in Workbooks
    /\ call = NoCall
    /\ sheet \in {<<r>> : r \in SheetRows}
    /\ source \in [Range(SymbolList(sheet)) -> Answers(variant)]
    /\ symbols = <<>>
    /\ si = 1
    /\ quotes = <<>>
    /\ calls = <<>>
    /\ holdings = <<>>
    /\ totals = NoTotals
    /\ ri = 1
    /\ records = <<>>
    /\ attention = <<>>
    /\ ranked = NoRanked
    /\ written = <<>>
    /\ out = NoOut
    /\ pc = "start"

SpecStructure == InitStructure /\ [][Next]_vars

(***************************************************************************)
(* parse_money on its own (the two scripts define it alike): the cell      *)
(* values a sheet can hold, text being every string of up to MaxText       *)
(* characters of MoneyChars and a few longer ones                          *)
(***************************************************************************)
MaxText == 3

MoneyChars == {"$", ",", ".", "1", "0", " ", "-", "x"}

MoneyInputs ==
    {None, Missing, Num(0), Num(-5), Q(123456, 100)}
    \cup {Str(t) : t \in UNION {[1..n -> MoneyChars] : n \in 0..MaxText}}
    \cup {Str(<<"$", "1", ",", "2", "3", "4", ".", "5", "6">>),
          Str(<<" ", "$", "1", "0", "0", " ">>),
          Str(<<"n", "a", "n">>),
          Str(<<"i", "n", "f">>),
          Str(<<"n", "/", "a">>)}

ParseMoney ==
    /\ pc = "parse"
    /\ call' = [arg |-> call.arg, result |-> parse_money(call.arg), returned |-> TRUE]
    /\ pc' = "parsed"
    /\ UNCHANGED <<variant, workbook, sheet, source, symbols, si, quotes, calls,
                   holdings, totals, ri, records, attention, ranked, written, out>>

InitParse ==
    /\ variant \in Variants
    /\ workbook = ValidWorkbook
    /\ call \in {[arg |-> v, result |-> None, returned |-> FALSE] : v \in MoneyInputs}
    /\ sheet = <<>>
    /\ source = <<>>
    /\ symbols = <<>>
    /\ si = 1
    /\ quotes = <<>>
    /\ calls = <<>>
    /\ holdings = <<>>
    /\ totals = NoTotals
    /\ ri = 1
    /\ records = <<>>
    /\ attention = <<>>
    /\ ranked = NoRanked
    /\ written = <<>>
    /\ out = NoOut
    /\ pc = "parse"

NextParse == ParseMoney

SpecParse == InitParse /\ [][NextParse]_vars

(***************************************************************************)
(* fetch_quotes on its own: any list of symbols, not yet normalized and    *)
(* possibly with repetitions                                               *)
(***************************************************************************)
InitFetch ==
    /\ variant \in Variants
    /\ workbook = ValidWorkbook
    /\ call = NoCall
    /\ sheet = <<>>
    /\ symbols \in SymbolLists
    /\ source \in [{Upper(Strip(s)) : s \in Range(symbols)} \ {<<>>} -> FetchAnswers(variant)]
    /\ si = 1
    /\ quotes = <<>>
    /\ calls = <<>>
    /\ holdings = <<>>
    /\ totals = NoTotals
    /\ ri = 1
    /\ records = <<>>
    /\ attention = <<>>
    /\ ranked = NoRanked
    /\ written = <<>>
    /\ out = NoOut
    /\ pc = "fetch"

NextFetch == FetchStep \/ FetchReturn

SpecFetch == InitFetch /\ [][NextFetch]_vars

(***************************************************************************)
(* classify on its own: the record loop over one derived position whose    *)
(* metrics are drawn from the values the columns can hold                  *)
(***************************************************************************)
DayPctValues  == {None, NaN, Num(-4), Num(-3), Q(-299, 100), Num(0)}
WeekPctValues == {None, NaN, Num(-10), Q(-999, 100), Num(5)}
PctBuyValues  == {NaN, PInf, NInf, Num(-15), Q(-1499, 100)}
PctDecValues  == {NaN, Num(-20), Q(-1999, 100), Num(0)}
TargetValues  == {NaN, Num(0), Num(100)}
CurrentValues == {None, NaN, Num(0), Num(5), Num(100), Num(105)}

Position(day, week, buy, dec, target, current) ==
    [row |-> 1, Symbol_clean |-> <<"A">>, Units |-> Num(1), Buy |-> NaN,
     Current |-> current, DecRef |-> NaN, Target |-> target, DayChange |-> NaN,
     DayPct |-> day, WeekPct |-> week, Pct_vs_buy |-> buy, Pct_vs_dec |-> dec,
     CostBasis |-> NaN, CurrentValue |-> Na(current), DayDollar |-> NaN]

InitClassify ==
    /\ variant = "cockpit"
    /\ workbook = ValidWorkbook
    /\ call = NoCall
    /\ sheet = <<>>
    /\ source = <<>>
    /\ symbols = <<>>
    /\ si = 1
    /\ quotes = <<>>
    /\ calls = <<>>
    /\ \E day \in DayPctValues, week \in WeekPctValues, buy \in PctBuyValues,
          dec \in PctDecValues, target \in TargetValues, current \in CurrentValues :
            holdings = <<Position(day, week, buy, dec, target, current)>>
    /\ totals = NoTotals
    /\ ri = 1
    /\ records = <<>>
    /\ attention = <<>>
    /\ ranked = NoRanked
    /\ written = <<>>
    /\ out = NoOut
    /\ pc = "records"

NextClassify == RecordStep \/ RecordsDone

SpecClassify == InitClassify /\ [][NextClassify]_vars

(***************************************************************************)
(* The cockpit from the record loop on, over a portfolio of up to          *)
(* MaxPositions held positions: position i carries the day percent and the *)
(* percent against the reference price of entry i of a drawn pattern,      *)
(* repeated.  The buy price is unknown throughout, so that any order of    *)
(* the positions is one sort_values("Pct_vs_buy") can leave.  A DayPct     *)
(* column is either None throughout (no row has a quote) or holds numbers  *)
(* and NaN.                                                                *)
(***************************************************************************)
MaxPositions == 11
MaxPattern == 3

RankKinds ==
    { <<Num(-4), NaN>>,            \* day drop
      <<Num(0), Num(-20)>>,        \* flat day, under the reference price
      <<NaN, Num(-20)>>,           \* no quote, under the reference price
      <<Num(2), NaN>>,             \* up, no trigger
      <<NaN, NaN>>,                \* no quote, no trigger
      <<None, Num(-20)>>,          \* no quote in the whole sheet
      <<None, NaN>> }

Patterns ==
    {p \in UNION {[1..k -> RankKinds] : k \in 1..MaxPattern} :
        \/ \A i \in 1..Len(p) : IsNone(p[i][1])
        \/ \A i \in 1..Len(p) : ~IsNone(p[i][1])}

Portfolio(n, p) ==
    [i \in 1..n |->
        LET kind == p[((i - 1) % Len(p)) + 1]
        IN  [Position(kind[1], IF IsNone(kind[1]) THEN None ELSE NaN, NaN, kind[2],
                      NaN, Num(100)) EXCEPT !.row = i]]

InitRank ==
    /\ variant = "cockpit"
    /\ workbook = ValidWorkbook
    /\ call = NoCall
    /\ sheet = <<>>
    /\ source = <<>>
    /\ symbols = <<>>
    /\ si = 1
    /\ quotes = <<>>
    /\ calls = <<>>
    /\ \E n \in 0..MaxPositions, p \in Patterns : holdings = Portfolio(n, p)
    /\ totals = NoTotals
    /\ ri = 1
    /\ records = <<>>
    /\ attention = <<>>
    /\ ranked = NoRanked
    /\ written = <<>>
    /\ out = NoOut
    /\ pc = "records"

NextRank ==
    \/ RecordStep
    \/ RecordsDone
    \/ Rank
    \/ WriteDigest
    \/ Serialize
    \/ WriteOutput

SpecRank == InitRank /\ [][NextRank]_vars

(***************************************************************************)
(* Properties                                                              *)
(***************************************************************************)
Defined(x) == ~IsNa(x)

\* fetch_quotes has returned
Fetched == pc \notin {"start", "fetch"}

Requested == {Upper(Strip(s)) : s \in Range(symbols)} \ {<<>>}

\* the answer of the quote source is a failure: an exception, or no session
\* with a close
Failing(answer) == answer.exc \/ \A i \in 1..Len(answer.closes) : IsNa(answer.closes[i])

\* the position of the first call for symbol s
FirstCall(s) == CHOOSE i \in 1..Len(calls) : calls[i] = s /\ \A j \in 1..(i - 1) : calls[j] # s

\* C1: in fetch_quotes, a failing fetch for a symbol leaves it absent from the
\* returned mapping and neither raises nor stops the loop (every requested
\* symbol is still queried, the loop runs to the end of the list), and the
\* entry of every other symbol is the quote of its own answer, whatever the
\* other symbols' outcomes are
C1_FailureIsolated ==
    Fetched =>
        /\ si = Len(symbols) + 1
        /\ DOMAIN quotes \subseteq Requested
        /\ \A s \in Requested :
              /\ s \in Range(calls)
              /\ Failing(source[s]) => s \notin DOMAIN quotes
              /\ ~Failing(source[s]) =>
                    /\ s \in DOMAIN quotes
                    /\ quotes[s] = fetch_quote(source[s], variant)

\* C1 witness: a symbol whose fetch failed was followed by one that succeeded
C1_Witness ==
    /\ Fetched
    /\ \E s, t \in Requested :
          /\ Failing(source[s]) /\ source[s].exc
          /\ ~Failing(source[t])
          /\ FirstCall(s) < FirstCall(t)
          /\ t \in DOMAIN quotes /\ s \notin DOMAIN quotes

\* the sheet row a derived row or a record was made from
Cell(h) == sheet[h.row]

\* two values agree, every unknown being the same unknown
SameValue(a, b) == (IsNa(a) /\ IsNa(b)) \/ a = b

Derived == pc \notin {"start", "fetch", "derive"}

\* C2: a holding row whose normalized symbol is a key of the quote map has
\* the quote's price as its current price; any other row has the money-parsed
\* "Current Price" cell, and its day change, day percent and week percent are
\* all unknown
C2_CurrentPriceResolution ==
    Derived =>
        \A i \in 1..Len(holdings) :
            LET h == holdings[i]
                sym == Symbol_clean(Cell(h).Symbol)
            IN  IF sym \in DOMAIN quotes
                THEN h.Current = quotes[sym].price
                ELSE /\ SameValue(h.Current, parse_money(Cell(h).CurrentPrice))
                     /\ IsNa(h.DayChange)
                     /\ IsNa(h.DayPct)
                     /\ IsNa(h.WeekPct)

\* C2 witness: one run holds a row priced by its quote, different from the
\* sheet's price, and a row priced by the sheet
C2_Witness ==
    /\ pc = "done"
    /\ \E i, j \in 1..Len(holdings) :
          /\ holdings[i].Symbol_clean \in DOMAIN quotes
          /\ Defined(parse_money(Cell(holdings[i]).CurrentPrice))
          /\ holdings[i].Current # parse_money(Cell(holdings[i]).CurrentPrice)
          /\ holdings[j].Symbol_clean \notin DOMAIN quotes
          /\ Defined(holdings[j].Current)

\* "x <= bound" for a metric x, an unknown metric counting as 0
AtMost(x, bound) ==
    IF IsNa(x) THEN 0 <= bound
    ELSE IF IsInf(x) THEN x.n < 0
    ELSE x.n <= bound * x.d

\* the decline labels a position should carry, in rule order
DeclinesDue(h) ==
    (IF AtMost(h.DayPct, -3) THEN <<DayDrop>> ELSE <<>>)
    \o (IF AtMost(h.WeekPct, -10) THEN <<WeekDrop>> ELSE <<>>)
    \o (IF AtMost(h.Pct_vs_buy, -15) THEN <<UnderBuy>> ELSE <<>>)
    \o (IF AtMost(h.Pct_vs_dec, -20) THEN <<UnderDec>> ELSE <<>>)

Classified == variant = "cockpit" /\ records # <<>>

\* C3: the decline triggers of every classified position are exactly the
\* rules, in the order day / week / buy / reference, whose inclusive bound
\* -3 / -10 / -15 / -20 holds with an unknown metric read as 0
C3_DeclineTriggers ==
    Classified =>
        \A i \in 1..Len(records) :
            SelectSeq(records[i].triggers, IsDecline) = DeclinesDue(holdings[i])

\* C3 witness: a position at exactly -3.0 day percent with a second decline
\* rule firing as well
C3_Witness ==
    /\ Classified
    /\ holdings[1].DayPct = Num(-3)
    /\ SelectSeq(records[1].triggers, IsDecline) = <<DayDrop, UnderBuy>>

\* C4: every classified position has one status: stable exactly when it has
\* no trigger, attention exactly when a decline trigger is among them (a
\* reached target staying in the list), action exactly when "target reached"
\* is the only trigger
C4_StatusFromTriggers ==
    Classified =>
        \A i \in 1..Len(records) :
            LET t == records[i].triggers
                st == records[i].status
            IN  /\ st \in {"stable", "attention", "action"}
                /\ st = "stable" <=> t = <<>>
                /\ st = "attention" <=> \E k \in 1..Len(t) : t[k][1] = "v"
                /\ st = "action" <=> t = <<TargetHit>>

\* C4 witness: a declining position that also reached its target
C4_Witness ==
    /\ Classified
    /\ records[1].status = "attention"
    /\ records[1].triggers = <<DayDrop, TargetHit>>

\* C5: "target reached" is among the triggers exactly when target and current
\* are both defined and current >= target, zero being a defined value
C5_TargetReachedIffDefined ==
    Classified =>
        \A i \in 1..Len(records) :
            LET h == holdings[i]
            IN  (\E k \in 1..Len(records[i].triggers) : records[i].triggers[k] = TargetHit)
                <=> (/\ Defined(h.Target) /\ Defined(h.Current)
                     /\ ~IsInf(h.Target) /\ ~IsInf(h.Current)
                     /\ h.Target.n * h.Current.d <= h.Current.n * h.Target.d)

\* p is (a - b) / b * 100 for finite a, b with b # 0, by cross-multiplication
IsPercentOf(p, a, b) ==
    /\ IsNum(p)
    /\ p.n * (a.d * b.n) = p.d * (100 * (a.n * b.d - b.n * a.d))

PercentGuarded(p, a, b) ==
    /\ ~IsInf(p)
    /\ (IsNa(b) \/ IsZero(b)) => IsNa(p)
    /\ (IsNum(a) /\ IsNum(b) /\ ~IsZero(b)) => IsPercentOf(p, a, b)

\* C6: percent vs buy is (current - buy) / buy * 100 when both are defined and
\* buy is not zero, and unknown when buy is undefined or zero; likewise
\* percent vs reference; the position never carries an infinity (NaN is the
\* frame's unknown marker)
C6_PercentGuardedAgainstZero ==
    Derived =>
        \A i \in 1..Len(holdings) :
            LET h == holdings[i]
            IN  /\ PercentGuarded(h.Pct_vs_buy, h.Current, h.Buy)
                /\ PercentGuarded(h.Pct_vs_dec, h.Current, h.DecRef)

Serialized_ == pc \in {"output", "done"}

FiniteOrNull(x) == IsNum(x) \/ IsNone(x)

AllFiniteOrNull(list) ==
    \A i \in 1..Len(list) : \A f \in NumericFields(variant) : FiniteOrNull(list[i][f])

\* C7: in either pipeline every numeric field of every serialized record
\* (records, attention queue, winners, losers) is a finite number or null
C7_NoNaNLeavesCore ==
    Serialized_ =>
        /\ AllFiniteOrNull(out.records)
        /\ AllFiniteOrNull(out.attention)
        /\ AllFiniteOrNull(out.winners)
        /\ AllFiniteOrNull(out.losers)

Totalled == pc \notin {"start", "fetch", "derive", "totals"}

\* units * x where both are defined, else 0
ProductOrZero(u, x) == IF Defined(u) /\ Defined(x) THEN FloatMul(u, x) ELSE Num(0)

RECURSIVE SumOfProducts(_, _)
\* the sum over the held rows of units * field, an undefined product being 0
SumOfProducts(h, field) ==
    IF h = <<>> THEN Num(0)
    ELSE FloatAdd(ProductOrZero(Head(h).Units, Head(h)[field]), SumOfProducts(Tail(h), field))

\* the sheet rows with strictly positive units
PositiveRows == {i \in 1..Len(sheet) : LET u == to_numeric(sheet[i].Units)
                                       IN  IsNum(u) /\ u.n > 0}

HeldArePositiveRows ==
    /\ {holdings[i].row : i \in 1..Len(holdings)} = PositiveRows
    /\ Len(holdings) = Cardinality(PositiveRows)

\* C8: total cost basis and total current value are the sums, over the rows
\* with strictly positive units, of units * buy and units * current, an
\* undefined product counting 0; each total is always a defined number
C8_TotalsZeroSubstituted ==
    Totalled =>
        /\ HeldArePositiveRows
        /\ totals.total_cost = SumOfProducts(holdings, "Buy")
        /\ totals.total_value = SumOfProducts(holdings, "Current")

QuoteDayChange(h) ==
    IF h.Symbol_clean \in DOMAIN quotes THEN quotes[h.Symbol_clean].day_change ELSE None

RECURSIVE SumOfDayDollars(_)
SumOfDayDollars(h) ==
    IF h = <<>> THEN Num(0)
    ELSE FloatAdd(ProductOrZero(Head(h).Units, QuoteDayChange(Head(h))),
                  SumOfDayDollars(Tail(h)))

\* C9: the day-dollar aggregate of the cockpit is the sum over the held rows
\* of units * quote day change, an undefined product counting 0; it is 0, not
\* unknown, when every product is undefined
C9_DayMoveZeroSubstituted ==
    (Totalled /\ variant = "cockpit") =>
        /\ IsNum(totals.day_move)
        /\ totals.day_move = SumOfDayDollars(holdings)

\* C9 witness: rows are held and every quote fetch failed
C9_Witness ==
    /\ Totalled /\ variant = "cockpit"
    /\ Len(holdings) >= 2
    /\ calls # <<>>
    /\ quotes = <<>>
    /\ totals.day_move = Num(0)

\* C10: net percent is (total value - total cost) / total cost * 100 when the
\* total cost basis is not zero and 0 when it is zero, the totals being the
\* zero-substituted sums; it is always a finite number
C10_NetPercent ==
    Totalled =>
        LET tc == SumOfProducts(holdings, "Buy")
            tv == SumOfProducts(holdings, "Current")
        IN  /\ IsNum(totals.pct_gain)
            /\ IF IsZero(tc) THEN totals.pct_gain = Num(0)
               ELSE IsPercentOf(totals.pct_gain, tv, tc)

\* the serialized lists exist
Handed == variant = "cockpit" /\ pc \in {"output", "done"}

Rows(list) == {list[i].row : i \in 1..Len(list)}

Triggered == {records[i].row : i \in {k \in 1..Len(records) : records[k].triggers # <<>>}}

\* C11: the attention queue handed to the page holds every classified
\* position with at least one trigger and no position without one, however
\* many positions are triggered
C11_AttentionQueueComplete ==
    Handed => Rows(out.attention) = Triggered

\* the ranked lists exist
Ranked == variant = "cockpit" /\ pc \in {"digest", "serialize", "output", "done"}

\* C12: the attention queue is in ascending order of day percent with only an
\* undefined day percent standing for the large negative sentinel: a position
\* with an undefined day percent precedes every position with a defined one,
\* and of two positions with defined day percents, 0 included, the one with
\* the smaller day percent comes first
C12_AttentionOrder ==
    Ranked =>
        LET queue == ranked.attention_sorted
        IN  \A i, j \in 1..Len(queue) :
                i < j =>
                    LET a == queue[i].dayPct
                        b == queue[j].dayPct
                    IN  /\ ~(Defined(a) /\ ~Defined(b))
                        /\ (Defined(a) /\ Defined(b)) => FloatLe(a, b)

\* the value a position is ranked by among the movers: its day percent, an
\* undefined one counting as exactly 0
RankingValue(r) == IF Defined(r.dayPct) THEN r.dayPct ELSE Num(0)

\* list holds min(TopN, N) different positions of records, in ranking order,
\* and no position left out ranks before one of the list; InRankOrder(a, b)
\* reads "a may precede b"
TopSlice(list, descending) ==
    LET InRankOrder(a, b) == IF descending
                             THEN FloatLe(RankingValue(b), RankingValue(a))
                             ELSE FloatLe(RankingValue(a), RankingValue(b))
    IN  /\ Len(list) = (IF Len(records) < TopN THEN Len(records) ELSE TopN)
        /\ Cardinality(Rows(list)) = Len(list)
        /\ \A i \in 1..Len(list) : \E k \in 1..Len(records) : records[k] = list[i]
        /\ \A i, j \in 1..Len(list) : i < j => InRankOrder(list[i], list[j])
        /\ \A k \in 1..Len(records) :
              records[k].row \notin Rows(list) =>
                  \A i \in 1..Len(list) : InRankOrder(list[i], records[k])

\* C13: top winners and top losers are the first min(5, N) of the N positions
\* ranked by day percent, descending and ascending, an undefined day percent
\* ranking as exactly 0; no position left out of the winners has a larger
\* ranking value than one among them, and none left out of the losers a
\* smaller one
C13_TopMovers ==
    Ranked =>
        /\ TopSlice(ranked.top_winners, TRUE)
        /\ TopSlice(ranked.top_losers, FALSE)

\* the normalized symbols of the sheet
SheetSymbols == {Symbol_clean(sheet[i].Symbol) : i \in 1..Len(sheet)}

\* C14: within one run of build the quote source is asked at most once about
\* each distinct normalized symbol, however many rows carry it and whether
\* the fetch succeeded or failed (a failed symbol is not asked about again);
\* it is never asked about the empty symbol or about "NAN"
C14_QueriedOncePerSymbol ==
    /\ \A i, j \in 1..Len(calls) : i # j => calls[i] # calls[j]
    /\ Range(calls) \subseteq SheetSymbols \ {<<>>, NAN}

\* C14 witness: two rows carry the same normalized symbol, written
\* differently, its fetch failed, and the run ended with that one query
C14_Witness ==
    /\ pc = "done"
    /\ Len(sheet) = 2
    /\ sheet[1].Symbol # sheet[2].Symbol
    /\ Symbol_clean(sheet[1].Symbol) = Symbol_clean(sheet[2].Symbol)
    /\ calls = <<Symbol_clean(sheet[1].Symbol)>>
    /\ quotes = <<>>

\* the columns a script reads in some run
RequiredColumns(v) ==
    IF v = "cockpit" THEN AllColumns ELSE AllColumns \ {"Sell price", "Target (20%)"}

Malformed == ~workbook.readable \/ ~(RequiredColumns(variant) \subseteq workbook.columns)

\* C15: a run of build whose source is unreadable or lacks a required column
\* aborts before any output file is written: it writes no file and does not
\* complete
C15_MalformedSourceAborts ==
    Malformed => (written = <<>> /\ pc # "done")

\* the run is complete: both files are written and the record set holds one
\* record for each sheet row of strictly positive units and no other
Completed ==
    /\ pc = "done"
    /\ written = <<IF variant = "cockpit" THEN "DIGEST" ELSE "SUMMARY", "OUTPUT">>
    /\ Rows(records) = PositiveRows
    /\ Len(records) = Cardinality(PositiveRows)

\* C16: for a structurally valid source and any combination of failing quote
\* fetches, all failing included, build runs to completion, writes every
\* output, and the record set holds exactly one record for each source row of
\* strictly positive units and none for a row of zero, blank or non-numeric
\* units.  As a property of every state: no run ends in an error, the two
\* loops stay within their lists (so that a step or the exit of the loop
\* applies), and a run that has ended is complete
C16_CompletesUnderFetchFailures ==
    /\ pc # "aborted"
    /\ pc = "fetch" => si \in 1..(Len(symbols) + 1)
    /\ pc = "records" => ri \in 1..(Len(holdings) + 1)
    /\ pc = "done" => Completed

\* C16 witness: every fetch failed, and of two rows the one without positive
\* units has no record
C16_Witness ==
    /\ Completed
    /\ calls # <<>>
    /\ quotes = <<>>
    /\ Len(sheet) = 2
    /\ Len(records) = 1

\* text with "$" and "," removed and the blanks around it dropped
Cleaned(t) == Strip(Remove(Remove(t, "$"), ","))

Unsigned(t) == IF t # <<>> /\ Head(t) = "-" THEN Tail(t) ELSE t

\* the digits before and after the decimal point of t
WholePart(t) ==
    IF \E i \in 1..Len(t) : t[i] = "."
    THEN SubSeq(t, 1, (CHOOSE i \in 1..Len(t) : t[i] = ".") - 1)
    ELSE t
FractionPart(t) ==
    IF \E i \in 1..Len(t) : t[i] = "."
    THEN SubSeq(t, (CHOOSE i \in 1..Len(t) : t[i] = ".") + 1, Len(t))
    ELSE <<>>

\* t is a decimal numeral: an optional sign, digits, at most one point
NumberText(t) ==
    LET w == WholePart(Unsigned(t))
        f == FractionPart(Unsigned(t))
    IN  /\ w \o f # <<>>
        /\ \A i \in 1..Len(w) : IsDigit(w[i])
        /\ \A i \in 1..Len(f) : IsDigit(f[i])

\* the number a decimal numeral denotes
DecimalOf(t) ==
    LET w == WholePart(Unsigned(t))
        f == FractionPart(Unsigned(t))
        magnitude == Q(DigitsVal(w) * Pow10(Len(f)) + DigitsVal(f), Pow10(Len(f)))
    IN  IF Head(t) = "-" THEN FloatNeg(magnitude) ELSE magnitude

\* C17: for every input value (currency text, plain number, blank text, None,
\* missing-cell NaN, text that is no number) parse_money returns a finite
\* number equal to the value with "$" and thousands separators removed, or
\* the unknown marker None; it returns None, never 0 and never NaN, on blank
\* input and on any value that cannot be read as a number
C17_ParseMoneyTotal ==
    call.returned =>
        LET v == call.arg
            r == call.result
        IN  /\ IsNum(r) \/ IsNone(r)
            /\ IsNum(v) => r = v
            /\ IsNa(v) => IsNone(r)
            /\ (IsStr(v) /\ NumberText(Cleaned(v.s))) => r = DecimalOf(Cleaned(v.s))
            /\ (IsStr(v) /\ ~NumberText(Cleaned(v.s))) => IsNone(r)

\* the closes of the sessions of an answer that have one, oldest first
Usable(answer) ==
    IF answer.exc THEN <<>> ELSE SelectSeq(answer.closes, LAMBDA c : ~IsNa(c))

\* what the claim says of the quote of a symbol whose answer has the usable
\* closes u
QuoteTiers(s, u) ==
    LET n == Len(u)
    IN  /\ n = 0 <=> s \notin DOMAIN quotes
        /\ n >= 1 =>
              LET q == quotes[s]
              IN  /\ q.price = u[n]
                  /\ n = 1 => (IsNone(q.day_change) /\ IsNone(q.day_pct))
                  /\ (n >= 2 /\ ~IsZero(u[n - 1])) =>
                        /\ q.day_change = FloatSub(u[n], u[n - 1])
                        /\ IsPercentOf(q.day_pct, u[n], u[n - 1])
                  /\ (n >= 2 /\ IsZero(u[n - 1])) =>
                        (IsNone(q.day_change) /\ IsNone(q.day_pct))
                  /\ (variant = "cockpit" /\ n >= WeekSessions /\ ~IsZero(u[1])) =>
                        IsPercentOf(q.week_pct, u[n], u[1])
                  /\ (variant # "cockpit" \/ n < WeekSessions \/ IsZero(u[1])) =>
                        IsNone(q.week_pct)

SameQuoteValues(i, j) ==
    /\ SameValue(holdings[i].Current, holdings[j].Current)
    /\ SameValue(holdings[i].DayChange, holdings[j].DayChange)
    /\ SameValue(holdings[i].DayPct, holdings[j].DayPct)
    /\ SameValue(holdings[i].WeekPct, holdings[j].WeekPct)

OneQuotePerSymbol ==
    /\ DOMAIN quotes \subseteq Requested
    /\ Derived =>
          \A i, j \in 1..Len(holdings) :
              LET sym == Symbol_clean(Cell(holdings[i]).Symbol)
              IN  (sym = Symbol_clean(Cell(holdings[j]).Symbol) /\ sym \in DOMAIN quotes)
                      => SameQuoteValues(i, j)

\* C19: within one run, two holding rows with equal normalized symbols that
\* are in the quote map have the same resolved current price, day dollar
\* change, day percent change and week percent change; the keys of the map
\* are among the non-empty normalized symbols requested; and the map does not
\* change once fetch_quotes has returned
C19_OneQuotePerSymbol ==
    /\ []OneQuotePerSymbol
    /\ [][Fetched => quotes' = quotes]_vars

\* C19 witness: two held rows write the same symbol differently and carry
\* different prices in the sheet; the run gave both the price of the one quote
C19_Witness ==
    /\ pc = "done"
    /\ \E i, j \in 1..Len(holdings) :
          /\ Cell(holdings[i]).Symbol # Cell(holdings[j]).Symbol
          /\ holdings[i].Symbol_clean = holdings[j].Symbol_clean
          /\ holdings[i].Symbol_clean \in DOMAIN quotes
          /\ parse_money(Cell(holdings[i]).CurrentPrice)
                 # parse_money(Cell(holdings[j]).CurrentPrice)
          /\ holdings[i].Current = quotes[holdings[i].Symbol_clean].price
          /\ holdings[j].Current = holdings[i].Current

====
